---------------------------- MODULE Spec2Model ----------------------------
(***************************************************************************)
(* Pictropy: entropy estimation of an image's colour channels, an order-3  *)
(* context-model size predictor (ppm_compress) and the reconciliation of   *)
(* the theoretical minimum size against the file size (main).              *)
(*                                                                         *)
(* Source: src/pictropy/src/main.rs and src/webptesy.rs.                   *)
(*                                                                         *)
(* Numbers.  The f64 quantities of the source (entropies, sizes, the       *)
(* percentage) are fixed-point integers scaled by FxOne:     *)
(* the f64 value v is the integer floor(v * FxOne).  usize quantities are  *)
(* plain integers.                                                         *)
(***************************************************************************)
EXTENDS Integers, Sequences, FiniteSets, TLC

\* ------------------------------------------------------------------ bounds
\* longest byte sequence given to calculate_entropy alone
MaxLen == 5
\* longest byte sequence given to ppm_compress alone
MaxPpmLen == 9
\* largest width*height of a decoded image
MaxPixels == 3
\* largest file size (bytes) reported by fs::metadata
MaxFileSize == 3
\* largest length returned by the WebP encoder
MaxWebp == 2

\* byte values that occur in the sequences given to calculate_entropy and
\* to ppm_compress (subsets of u8)
ByteValues == {0, 127, 255}
PpmByteValues == {0, 255}

\* ------------------------------------------------------- fixed-point f64
FxOne == 1024
MantOne == 16384
FracSteps == 10

RECURSIVE Pow2(_)
Pow2(k) == IF k = 0 THEN 1 ELSE 2 * Pow2(k - 1)

\* usize::saturating_sub
SaturatingSub(a, b) == IF a > b THEN a - b ELSE 0

\* ceil(|log2(count / total)|) as usize, for count/total = 0/0 the f64 is
\* NaN and `NaN as usize` is 0; for count = 0 < total it is +inf and the
\* cast saturates (UsizeMax).
UsizeMax == 1000000
RECURSIVE LeastShift(_, _, _)
LeastShift(count, total, k) ==
    IF count * Pow2(k) >= total THEN k ELSE LeastShift(count, total, k + 1)
CeilAbsLog2(count, total) ==
    IF total = 0 THEN 0
    ELSE IF count = 0 THEN UsizeMax
    ELSE IF count >= total THEN LeastShift(total, count, 0)
    ELSE LeastShift(count, total, 0)

\* |log2(count / total)| for 1 <= count <= total, in fixed point: the
\* integer part by shifting, FracSteps fraction bits by repeated squaring
\* of the mantissa.
RECURSIVE IntLog2(_, _, _)
IntLog2(count, total, k) ==
    IF count * Pow2(k + 1) <= total THEN IntLog2(count, total, k + 1) ELSE k
RECURSIVE FracLog2(_, _, _)
FracLog2(x, step, acc) ==
    IF step = 0 THEN acc
    ELSE LET sq == (x * x) \div MantOne
         IN  IF sq >= 2 * MantOne
             THEN FracLog2(sq \div 2, step - 1, 2 * acc + 1)
             ELSE FracLog2(sq, step - 1, 2 * acc)
AbsLog2Fx(count, total) ==
    LET k == IntLog2(count, total, 0)
        x == (total * MantOne) \div (count * Pow2(k))
    IN  k * FxOne + FracLog2(x, FracSteps, 0)

\* --------------------------------------------------------------- HashMap
EmptyMap == << >>
MapGet(m, k, default) == IF k \in DOMAIN m THEN m[k] ELSE default
MapPut(m, k, v) == [x \in DOMAIN m \cup {k} |-> IF x = k THEN v ELSE m[x]]

RECURSIVE SumValues(_)
SumValues(m) ==
    IF DOMAIN m = {} THEN 0
    ELSE LET k == CHOOSE x \in DOMAIN m : TRUE
         IN  m[k] + SumValues([x \in DOMAIN m \ {k} |-> m[x]])

\* all sequences over S of length lo..hi
SeqsOf(S, lo, hi) == UNION {[1..n -> S] : n \in lo..hi}

VARIABLES
    \* main: which binary runs, the position in main, its locals, stdout
    program, pc, path, ext, file_size, img, total_pixels,
    red_channel, green_channel, blue_channel,
    red_entropy, green_entropy, blue_entropy, total_entropy,
    theoretical_minimum_size, model_message,
    red_compressed_size, green_compressed_size, blue_compressed_size,
    webp_compressed_size, compression_percentage, output,
    \* ppm_compress, one pass
    ppm_pc, image_data, ppm_i, context_map, compressed_size,
    context, value_freq, total_freq, symbol_cost,
    \* calculate_entropy, one call, and the histogram and result of an
    \* earlier call on a permutation of the same data
    ent_pc, ent_data, ent_i, histogram, entropy,
    has_ref, ref_histogram, ref_entropy

mainVars == <<program, pc, path, ext, file_size, img, total_pixels,
              red_channel, green_channel, blue_channel,
              red_entropy, green_entropy, blue_entropy, total_entropy,
              theoretical_minimum_size, model_message,
              red_compressed_size, green_compressed_size,
              blue_compressed_size, webp_compressed_size,
              compression_percentage, output>>

ppmVars == <<ppm_pc, image_data, ppm_i, context_map, compressed_size,
             context, value_freq, total_freq, symbol_cost>>

entVars == <<ent_pc, ent_data, ent_i, histogram, entropy,
             has_ref, ref_histogram, ref_entropy>>

vars == <<mainVars, ppmVars, entVars>>

\* Option<T>
None == << >>
Some(v) == <<v>>
Unwrap(o) == o[1]

\* ------------------------------------------- the parts that are not running
MainLocalsUnset ==
    /\ path = << >>
    /\ ext = << >>
    /\ file_size = None
    /\ img = None
    /\ total_pixels = 0
    /\ red_channel = << >>
    /\ green_channel = << >>
    /\ blue_channel = << >>
    /\ red_entropy = 0
    /\ green_entropy = 0
    /\ blue_entropy = 0
    /\ total_entropy = 0
    /\ theoretical_minimum_size = 0
    /\ model_message = << >>
    /\ red_compressed_size = 0
    /\ green_compressed_size = 0
    /\ blue_compressed_size = 0
    /\ webp_compressed_size = 0
    /\ compression_percentage = 0
    /\ output = << >>

MainIdle ==
    /\ program = "none"
    /\ pc = "idle"
    /\ MainLocalsUnset

PpmIdle ==
    /\ ppm_pc = "idle"
    /\ image_data = << >>
    /\ ppm_i = 0
    /\ context_map = EmptyMap
    /\ compressed_size = 0
    /\ context = << >>
    /\ value_freq = 0
    /\ total_freq = 0
    /\ symbol_cost = 0

EntIdle ==
    /\ ent_pc = "idle"
    /\ ent_data = << >>
    /\ ent_i = 0
    /\ histogram = EmptyMap
    /\ entropy = None
    /\ has_ref = FALSE
    /\ ref_histogram = EmptyMap
    /\ ref_entropy = None

\* ----------------------------------------------------- calculate_entropy
\* mutant: the entry is inserted, not incremented
HistAdd_Insert(hist, value) == MapPut(hist, value, 1)

\* *histogram.entry(value).or_insert(0) += 1
HistAdd(hist, value) == MapPut(hist, value, MapGet(hist, value, 0) + 1)

\* mutant: the term is the probability, the logarithm is left out
EntropyTerm_NoLog(count, total) == (count * FxOne) \div total

\* -probability * probability.log2() with probability = count/total
EntropyTerm(count, total) ==
    (count * AbsLog2Fx(count, total)) \div total

\* histogram.iter().map(..).sum(); the sum of no terms is 0
RECURSIVE EntropySum(_, _)
EntropySum(hist, total) ==
    IF DOMAIN hist = {} THEN 0
    ELSE LET k == CHOOSE x \in DOMAIN hist : TRUE
         IN  EntropyTerm(hist[k], total)
             + EntropySum([x \in DOMAIN hist \ {k} |-> hist[x]], total)

RECURSIVE HistogramOf(_, _, _)
HistogramOf(data, i, hist) ==
    IF i = Len(data) THEN hist
    ELSE HistogramOf(data, i + 1, HistAdd(hist, data[i + 1]))

calculate_entropy(data) ==
    EntropySum(HistogramOf(data, 0, EmptyMap), Len(data))

EntInit ==
    /\ MainIdle
    /\ PpmIdle
    /\ ent_pc = "count"
    /\ ent_data \in SeqsOf(ByteValues, 0, MaxLen)
    /\ ent_i = 0
    /\ histogram = EmptyMap
    /\ entropy = None
    /\ has_ref = FALSE
    /\ ref_histogram = EmptyMap
    /\ ref_entropy = None

\* for &value in image_data { ... }
EntropyCount ==
    /\ ent_pc = "count"
    /\ ent_i < Len(ent_data)
    /\ histogram' = HistAdd(histogram, ent_data[ent_i + 1])
    /\ ent_i' = ent_i + 1
    /\ UNCHANGED <<ent_pc, ent_data, entropy, has_ref, ref_histogram,
                   ref_entropy, mainVars, ppmVars>>

\* mutant: an empty input is refused
EntropyReturn_EmptyError ==
    /\ ent_pc = "count"
    /\ ent_i = Len(ent_data)
    /\ IF Len(ent_data) = 0
       THEN /\ entropy' = None
            /\ ent_pc' = "error"
       ELSE /\ entropy' = Some(EntropySum(histogram, Len(ent_data)))
            /\ ent_pc' = "done"
    /\ UNCHANGED <<ent_data, ent_i, histogram, has_ref, ref_histogram,
                   ref_entropy, mainVars, ppmVars>>

\* histogram.iter().map(..).sum() and return
EntropyReturn ==
    /\ ent_pc = "count"
    /\ ent_i = Len(ent_data)
    /\ entropy' = Some(EntropySum(histogram, Len(ent_data)))
    /\ ent_pc' = "done"
    /\ UNCHANGED <<ent_data, ent_i, histogram, has_ref, ref_histogram,
                   ref_entropy, mainVars, ppmVars>>

\* data with the elements at positions a and b exchanged
Swap(data, a, b) ==
    [x \in 1..Len(data) |->
        IF x = a THEN data[b] ELSE IF x = b THEN data[a] ELSE data[x]]

\* The caller keeps the finished call's histogram and result and calls
\* calculate_entropy again on a permutation of the data.
CallPermuted ==
    /\ ent_pc = "done"
    /\ \E a, b \in 1..Len(ent_data) :
          /\ a < b
          /\ ent_data[a] # ent_data[b]
          /\ ent_data' = Swap(ent_data, a, b)
    /\ has_ref' = TRUE
    /\ ref_histogram' = histogram
    /\ ref_entropy' = entropy
    /\ ent_pc' = "count"
    /\ ent_i' = 0
    /\ histogram' = EmptyMap
    /\ entropy' = None
    /\ UNCHANGED <<mainVars, ppmVars>>

EntNext == EntropyCount \/ EntropyReturn \/ CallPermuted
SpecEntropy == EntInit /\ [][EntNext]_vars

\* ---------------------------------------------------------- ppm_compress
\* mutant: count and total are read before the count is incremented
PpmIter_BeforeUpdate(map, data, i) ==
    LET value == data[i + 1]
        ctx   == SubSeq(data, SaturatingSub(i, 3) + 1, i)
        freq0 == MapGet(map, ctx, EmptyMap)
        freq1 == MapPut(freq0, value, MapGet(freq0, value, 0) + 1)
        total == SumValues(freq0)
    IN  [map     |-> MapPut(map, ctx, freq1),
         context |-> ctx,
         count   |-> MapGet(freq0, value, 0),
         total   |-> total,
         cost    |-> CeilAbsLog2(MapGet(freq0, value, 0), total)]

\* mutant: total is the number of distinct symbols seen in the context
PpmIter_DistinctTotal(map, data, i) ==
    LET value == data[i + 1]
        ctx   == SubSeq(data, SaturatingSub(i, 3) + 1, i)
        freq0 == MapGet(map, ctx, EmptyMap)
        freq1 == MapPut(freq0, value, MapGet(freq0, value, 0) + 1)
        total == Cardinality(DOMAIN freq1)
    IN  [map     |-> MapPut(map, ctx, freq1),
         context |-> ctx,
         count   |-> freq1[value],
         total   |-> total,
         cost    |-> CeilAbsLog2(freq1[value], total)]

\* mutant: the context is the last 2 bytes
PpmIter_Context2(map, data, i) ==
    LET value == data[i + 1]
        ctx   == SubSeq(data, SaturatingSub(i, 2) + 1, i)
        freq0 == MapGet(map, ctx, EmptyMap)
        freq1 == MapPut(freq0, value, MapGet(freq0, value, 0) + 1)
        total == SumValues(freq1)
    IN  [map     |-> MapPut(map, ctx, freq1),
         context |-> ctx,
         count   |-> freq1[value],
         total   |-> total,
         cost    |-> CeilAbsLog2(freq1[value], total)]

\* One iteration of the loop body at 0-indexed position i.
PpmIter(map, data, i) ==
    LET value == data[i + 1]
        ctx   == SubSeq(data, SaturatingSub(i, 3) + 1, i)
        freq0 == MapGet(map, ctx, EmptyMap)
        freq1 == MapPut(freq0, value, MapGet(freq0, value, 0) + 1)
        total == SumValues(freq1)
    IN  [map     |-> MapPut(map, ctx, freq1),
         context |-> ctx,
         count   |-> freq1[value],
         total   |-> total,
         cost    |-> CeilAbsLog2(freq1[value], total)]

PpmInit ==
    /\ MainIdle
    /\ EntIdle
    /\ ppm_pc = "loop"
    /\ image_data \in SeqsOf(PpmByteValues, 0, MaxPpmLen)
    /\ ppm_i = 0
    /\ context_map = EmptyMap
    /\ compressed_size = 0
    /\ context = << >>
    /\ value_freq = 0
    /\ total_freq = 0
    /\ symbol_cost = 0

\* mutant: the cost of the symbol is assigned, not added
PpmLoop_Assign ==
    /\ ppm_pc = "loop"
    /\ ppm_i < Len(image_data)
    /\ LET it == PpmIter(context_map, image_data, ppm_i)
       IN  /\ context_map' = it.map
           /\ context' = it.context
           /\ value_freq' = it.count
           /\ total_freq' = it.total
           /\ symbol_cost' = it.cost
           /\ compressed_size' = it.cost
    /\ ppm_i' = ppm_i + 1
    /\ UNCHANGED <<ppm_pc, image_data, mainVars, entVars>>

\* for (i, &value) in image_data.iter().enumerate() { ... }
PpmLoop ==
    /\ ppm_pc = "loop"
    /\ ppm_i < Len(image_data)
    /\ LET it == PpmIter(context_map, image_data, ppm_i)
       IN  /\ context_map' = it.map
           /\ context' = it.context
           /\ value_freq' = it.count
           /\ total_freq' = it.total
           /\ symbol_cost' = it.cost
           /\ compressed_size' = compressed_size + it.cost
    /\ ppm_i' = ppm_i + 1
    /\ UNCHANGED <<ppm_pc, image_data, mainVars, entVars>>

PpmReturn ==
    /\ ppm_pc = "loop"
    /\ ppm_i = Len(image_data)
    /\ ppm_pc' = "done"
    /\ UNCHANGED <<image_data, ppm_i, context_map, compressed_size,
                   context, value_freq, total_freq, symbol_cost,
                   mainVars, entVars>>

\* ppm_compress as a function of its argument
RECURSIVE PpmFold(_, _, _, _)
PpmFold(map, data, i, size) ==
    IF i = Len(data) THEN size
    ELSE LET it == PpmIter(map, data, i)
         IN  PpmFold(it.map, data, i + 1, size + it.cost)
ppm_compress(data) == PpmFold(EmptyMap, data, 0, 0)

PpmNext == PpmLoop \/ PpmReturn
SpecPpm == PpmInit /\ [][PpmNext]_vars

\* ------------------------------------------------------------------ main
\* Paths typed at the prompt, already trimmed, as character sequences.
Paths ==
    { <<"a", ".", "p", "n", "g">>,
      <<"A", ".", "P", "N", "G">>,
      <<"a", ".", "j", "p", "g">>,
      <<"a", ".", "j", "p", "e", "g">>,
      <<"p", "n", "g">>,
      <<"a", ".", "g", "i", "f">>,
      <<"a", ".", "p", "n", "g", ".">>,
      << >> }

\* char::to_lowercase on the characters that occur
LowerChar(c) ==
    CASE c = "A" -> "a"
      [] c = "P" -> "p"
      [] c = "N" -> "n"
      [] c = "G" -> "g"
      [] OTHER -> c
ToLowercase(str) == [x \in 1..Len(str) |-> LowerChar(str[x])]

\* path.split('.').last(): what follows the last '.', the whole string when
\* there is none (split always yields at least one piece)
RECURSIVE LastDot(_, _)
LastDot(str, k) ==
    IF k = 0 THEN 0 ELSE IF str[k] = "." THEN k ELSE LastDot(str, k - 1)
SplitLast(str) == SubSeq(str, LastDot(str, Len(str)) + 1, Len(str))

SupportedExtensions ==
    { <<"j", "p", "g">>, <<"j", "p", "e", "g">>, <<"p", "n", "g">> }

\* RGBA pixels that occur in decoded images
Palette ==
    { <<0, 0, 0, 255>>, <<255, 255, 255, 255>>,
      <<127, 127, 127, 0>>, <<255, 0, 0, 255>>, <<255, 0, 0, 0>> }

\* decoded images: dimensions and pixels in scan order
Dimensions ==
    { d \in (1..MaxPixels) \X (1..MaxPixels) : d[1] * d[2] <= MaxPixels }
Images ==
    UNION { { [width |-> d[1], height |-> d[2], pixels |-> px] :
                px \in [1..(d[1] * d[2]) -> Palette] } : d \in Dimensions }

FileSizes == 1..MaxFileSize

\* split_rgb_channels: channel c (1 red, 2 green, 3 blue) of every pixel
Channel(image, c) ==
    [x \in 1..Len(image.pixels) |-> image.pixels[x][c]]

\* format!("{:.2}", v): v rounded to hundredths (the integer is v * 100)
Format2(v) == (v * 100 + FxOne \div 2) \div FxOne

\* a / b on f64
FxDiv(a, b) == (a * FxOne) \div b

MainInit ==
    /\ PpmIdle
    /\ EntIdle
    /\ program \in {"pictropy", "webptesy"}
    /\ pc = "start"
    /\ MainLocalsUnset

AfterPath == <<ext, file_size, img, total_pixels,
               red_channel, green_channel, blue_channel,
               red_entropy, green_entropy, blue_entropy, total_entropy,
               theoretical_minimum_size, model_message,
               red_compressed_size, green_compressed_size,
               blue_compressed_size, webp_compressed_size,
               compression_percentage>>
AfterImage == <<total_pixels,
                red_channel, green_channel, blue_channel,
                red_entropy, green_entropy, blue_entropy, total_entropy,
                theoretical_minimum_size, model_message,
                red_compressed_size, green_compressed_size,
                blue_compressed_size, webp_compressed_size,
                compression_percentage>>
Sizes == <<red_compressed_size, green_compressed_size,
           blue_compressed_size, webp_compressed_size>>

\* prompt, read_line, trim
ReadPath ==
    /\ pc = "start"
    /\ \E p \in Paths : path' = p
    /\ output' = Append(output, <<"Enter the path to the image file:">>)
    /\ pc' = "validate"
    /\ UNCHANGED <<program, AfterPath, ppmVars, entVars>>

\* read_line fails: expect panics
ReadPathPanic ==
    /\ pc = "start"
    /\ output' = Append(output, <<"Enter the path to the image file:">>)
    /\ pc' = "panicked"
    /\ UNCHANGED <<program, path, AfterPath, ppmVars, entVars>>

\* mutant: the message is printed but main does not return
ValidateExtension_NoReturn ==
    /\ pc = "validate"
    /\ ext' = ToLowercase(SplitLast(path))
    /\ IF ext' \notin SupportedExtensions
       THEN output' = Append(output, <<"Unsupported file format.">>)
       ELSE output' = output
    /\ pc' = "metadata"
    /\ UNCHANGED <<program, path, file_size, img, AfterImage,
                   ppmVars, entVars>>

\* the extension check
ValidateExtension ==
    /\ pc = "validate"
    /\ ext' = ToLowercase(SplitLast(path))
    /\ IF ext' \notin SupportedExtensions
       THEN /\ output' = Append(output, <<"Unsupported file format.">>)
            /\ pc' = "returned"
       ELSE /\ output' = output
            /\ pc' = "metadata"
    /\ UNCHANGED <<program, path, file_size, img, AfterImage,
                   ppmVars, entVars>>

\* fs::metadata(path)
GetMetadata ==
    /\ pc = "metadata"
    /\ \/ /\ output' = Append(output, <<"Failed to access file">>)
          /\ pc' = "returned"
          /\ UNCHANGED file_size
       \/ /\ \E n \in FileSizes : file_size' = Some(n)
          /\ pc' = "read_image"
          /\ UNCHANGED output
    /\ UNCHANGED <<program, path, ext, img, AfterImage, ppmVars, entVars>>

\* read_image(path)
ReadImage ==
    /\ pc = "read_image"
    /\ \/ /\ output' = Append(output, <<"Error: Unable to open the image file", path>>)
          /\ pc' = "returned"
          /\ UNCHANGED img
       \/ /\ \E image \in Images : img' = Some(image)
          /\ pc' = "split"
          /\ UNCHANGED output
    /\ UNCHANGED <<program, path, ext, file_size, AfterImage,
                   ppmVars, entVars>>

\* img.dimensions(), total_pixels, split_rgb_channels
SplitChannels ==
    /\ pc = "split"
    /\ total_pixels' = Unwrap(img).width * Unwrap(img).height
    /\ red_channel' = Channel(Unwrap(img), 1)
    /\ green_channel' = Channel(Unwrap(img), 2)
    /\ blue_channel' = Channel(Unwrap(img), 3)
    /\ pc' = "entropy"
    /\ UNCHANGED <<program, path, ext, file_size, img,
                   red_entropy, green_entropy, blue_entropy, total_entropy,
                   theoretical_minimum_size, model_message, Sizes,
                   compression_percentage, output, ppmVars, entVars>>

\* the three calculate_entropy calls and their sum
CalculateEntropies ==
    /\ pc = "entropy"
    /\ red_entropy' = calculate_entropy(red_channel)
    /\ green_entropy' = calculate_entropy(green_channel)
    /\ blue_entropy' = calculate_entropy(blue_channel)
    /\ total_entropy' = red_entropy' + green_entropy' + blue_entropy'
    /\ pc' = "limit"
    /\ UNCHANGED <<program, path, ext, file_size, img, total_pixels,
                   red_channel, green_channel, blue_channel,
                   theoretical_minimum_size, model_message, Sizes,
                   compression_percentage, output, ppmVars, entVars>>

\* mutant: the size is not clamped, only the message changes
TheoreticalLimit_NoClamp ==
    /\ pc = "limit"
    /\ LET raw == (total_entropy * total_pixels) \div 8
           size == Unwrap(file_size) * FxOne
       IN  /\ theoretical_minimum_size' = raw
           /\ IF raw > size
              THEN model_message' = <<"The model isn't effective enough">>
              ELSE model_message' =
                      <<"Theoretical Minimum Size (Lossless Limit)", Format2(raw)>>
    /\ pc' = "compress"
    /\ UNCHANGED <<program, path, ext, file_size, img, total_pixels,
                   red_channel, green_channel, blue_channel,
                   red_entropy, green_entropy, blue_entropy, total_entropy,
                   Sizes, compression_percentage, output, ppmVars, entVars>>

\* the theoretical lossless limit, its message, and the clamp
TheoreticalLimit ==
    /\ pc = "limit"
    /\ LET raw == (total_entropy * total_pixels) \div 8
           size == Unwrap(file_size) * FxOne
       IN  IF raw > size
           THEN /\ theoretical_minimum_size' = size
                /\ model_message' = <<"The model isn't effective enough">>
           ELSE /\ theoretical_minimum_size' = raw
                /\ model_message' =
                      <<"Theoretical Minimum Size (Lossless Limit)", Format2(raw)>>
    /\ pc' = "compress"
    /\ UNCHANGED <<program, path, ext, file_size, img, total_pixels,
                   red_channel, green_channel, blue_channel,
                   red_entropy, green_entropy, blue_entropy, total_entropy,
                   Sizes, compression_percentage, output, ppmVars, entVars>>

\* pictropy: ppm_compress on each channel
CompressPpm ==
    /\ pc = "compress"
    /\ program = "pictropy"
    /\ red_compressed_size' = ppm_compress(red_channel)
    /\ green_compressed_size' = ppm_compress(green_channel)
    /\ blue_compressed_size' = ppm_compress(blue_channel)
    /\ pc' = "percentage"
    /\ UNCHANGED <<program, path, ext, file_size, img, total_pixels,
                   red_channel, green_channel, blue_channel,
                   red_entropy, green_entropy, blue_entropy, total_entropy,
                   theoretical_minimum_size, model_message,
                   webp_compressed_size,
                   compression_percentage, output, ppmVars, entVars>>

\* webptesy: webp_compress(&img); the encoder is external, it returns some
\* length or refuses the image (expect panics)
CompressWebp ==
    /\ pc = "compress"
    /\ program = "webptesy"
    /\ \/ /\ \E n \in 0..MaxWebp : webp_compressed_size' = n
          /\ pc' = "percentage"
       \/ /\ pc' = "panicked"
          /\ UNCHANGED webp_compressed_size
    /\ UNCHANGED <<program, path, ext, file_size, img, total_pixels,
                   red_channel, green_channel, blue_channel,
                   red_entropy, green_entropy, blue_entropy, total_entropy,
                   theoretical_minimum_size, model_message,
                   red_compressed_size, green_compressed_size,
                   blue_compressed_size,
                   compression_percentage, output, ppmVars, entVars>>

\* mutant: the ratio itself, not its complement
CompressionPercentage_Ratio ==
    /\ pc = "percentage"
    /\ LET size == Unwrap(file_size) * FxOne
       IN  compression_percentage' =
              IF theoretical_minimum_size > size
              THEN 0
              ELSE FxDiv(theoretical_minimum_size, size) * 100
    /\ pc' = "display"
    /\ UNCHANGED <<program, path, ext, file_size, img, total_pixels,
                   red_channel, green_channel, blue_channel,
                   red_entropy, green_entropy, blue_entropy, total_entropy,
                   theoretical_minimum_size, model_message, Sizes,
                   output, ppmVars, entVars>>

\* the compression percentage
CompressionPercentage ==
    /\ pc = "percentage"
    /\ LET size == Unwrap(file_size) * FxOne
       IN  compression_percentage' =
              IF theoretical_minimum_size > size
              THEN 0
              ELSE (FxOne - FxDiv(theoretical_minimum_size, size)) * 100
    /\ pc' = "display"
    /\ UNCHANGED <<program, path, ext, file_size, img, total_pixels,
                   red_channel, green_channel, blue_channel,
                   red_entropy, green_entropy, blue_entropy, total_entropy,
                   theoretical_minimum_size, model_message, Sizes,
                   output, ppmVars, entVars>>

\* display_results(..): the lines it prints
DisplayLines ==
    << <<"Entropy (bits/pixel)", Format2(red_entropy), Format2(green_entropy),
         Format2(blue_entropy), Format2(total_entropy)>>,
       IF program = "pictropy"
       THEN <<"Compressed Size (bytes)", red_compressed_size,
              green_compressed_size, blue_compressed_size>>
       ELSE <<"no row">>,
       <<"Original Size", Unwrap(file_size)>>,
       model_message,
       <<"Compression Percentage", Format2(compression_percentage)>>,
       IF program = "pictropy"
       THEN <<"Total Compressed Size (bytes)",
              red_compressed_size + green_compressed_size
                + blue_compressed_size>>
       ELSE <<"WebP Compressed Size (bytes)", webp_compressed_size>> >>
    \o (IF compression_percentage <= 0
        THEN << <<"Note: This file is already highly compressed">> >>
        ELSE << >>)

DisplayResults ==
    /\ pc = "display"
    /\ output' = output \o DisplayLines
    /\ pc' = "completed"
    /\ UNCHANGED <<program, path, ext, file_size, img, total_pixels,
                   red_channel, green_channel, blue_channel,
                   red_entropy, green_entropy, blue_entropy, total_entropy,
                   theoretical_minimum_size, model_message, Sizes,
                   compression_percentage, ppmVars, entVars>>

MainNext ==
    \/ ReadPath
    \/ ReadPathPanic
    \/ ValidateExtension
    \/ GetMetadata
    \/ ReadImage
    \/ SplitChannels
    \/ CalculateEntropies
    \/ TheoreticalLimit
    \/ CompressPpm
    \/ CompressWebp
    \/ CompressionPercentage
    \/ DisplayResults

SpecMain == MainInit /\ [][MainNext]_vars

\* ================================================================ claims

\* ------------------------------------------------------------------- C1
FileSizeFx == Unwrap(file_size) * FxOne
RawTheoreticalSize == (total_entropy * total_pixels) \div 8

Advisory == <<"The model isn't effective enough">>
Numeric(v) == <<"Theoretical Minimum Size (Lossless Limit)", Format2(v)>>

\* C9: if the raw theoretical size exceeds the file size, the theoretical
\* size is the file size, the message is the advisory one and the
\* percentage is 0; otherwise the theoretical size is the raw value, the
\* message is the numeric one and the percentage is (1 - size/file) * 100.
\* The message printed is the advisory one iff the clamp triggered.
C9_CaseSplit ==
    pc \in {"display", "completed"} =>
       IF RawTheoreticalSize > FileSizeFx
       THEN /\ theoretical_minimum_size = FileSizeFx
            /\ model_message = Advisory
            /\ compression_percentage = 0
       ELSE /\ theoretical_minimum_size = RawTheoreticalSize
            /\ model_message = Numeric(RawTheoreticalSize)
            /\ model_message # Advisory
            /\ compression_percentage =
                  (FxOne - FxDiv(RawTheoreticalSize, FileSizeFx)) * 100
C9_MessageShown ==
    pc = "completed" =>
       /\ \E k \in 1..Len(output) : output[k] = model_message
       /\ (\E k \in 1..Len(output) : output[k] = Advisory)
             <=> RawTheoreticalSize > FileSizeFx
Constant(channel) ==
    /\ Len(channel) > 0
    /\ \A x \in 1..Len(channel) : channel[x] = channel[1]
SolidColour ==
    /\ Constant(red_channel)
    /\ Constant(green_channel)
    /\ Constant(blue_channel)

\* C6: for an image whose channels are each one repeated byte value, with a
\* positive file size, every channel entropy is 0, the theoretical minimum
\* size is 0, the clamp does not trigger (numeric message) and the
\* percentage is 100.
C6_Degenerate ==
    (SolidColour /\ Unwrap(file_size) > 0) =>
       /\ pc \in {"limit", "compress", "percentage", "display", "completed"}
             => /\ red_entropy = 0
                /\ green_entropy = 0
                /\ blue_entropy = 0
                /\ total_entropy = 0
       /\ pc \in {"compress", "percentage", "display", "completed"}
             => /\ theoretical_minimum_size = 0
                /\ model_message = Numeric(0)
       /\ pc \in {"display", "completed"}
             => compression_percentage = 100 * FxOne

\* a presented run on a solid-colour image of more than one pixel
C6_Witness ==
    /\ pc = "completed"
    /\ SolidColour
    /\ total_pixels > 1

\* ------------------------------------------------------------------- C5
PathExtension == ToLowercase(SplitLast(path))
Prompt == <<"Enter the path to the image file:">>
Presented == Len(output) > 2

\* C5: the file size is looked up only after the extension check passed,
\* the image is decoded only after the lookup succeeded, the channels are
\* split only after the decode succeeded; a failure of one of these three
\* ends the run with one message and nothing later done; results are
\* presented only when all three succeeded.
C5_StageOrder ==
    /\ file_size # None => ext \in SupportedExtensions
    /\ img # None => file_size # None
    /\ (total_pixels # 0 \/ red_channel # << >>) => img # None
    /\ (pc \notin {"start", "validate", "panicked"}
          /\ PathExtension \notin SupportedExtensions)
          => /\ pc = "returned"
             /\ file_size = None
             /\ img = None
             /\ output = <<Prompt, <<"Unsupported file format.">> >>
    /\ (pc = "returned" /\ ext \in SupportedExtensions /\ file_size = None)
          => /\ img = None
             /\ output = <<Prompt, <<"Failed to access file">> >>
    /\ (pc = "returned" /\ file_size # None)
          => /\ img = None
             /\ red_channel = << >>
             /\ output =
                  <<Prompt, <<"Error: Unable to open the image file", path>> >>
    /\ pc = "returned" => ~Presented
    /\ Presented
          => /\ pc = "completed"
             /\ ext \in SupportedExtensions
             /\ file_size # None
             /\ img # None

\* the decode failed after the extension check and the lookup succeeded
C5_Witness ==
    /\ pc = "returned"
    /\ file_size # None
    /\ img = None

\* ------------------------------------------------------------------- C7
Occurrences(data, v) == Cardinality({x \in 1..Len(data) : data[x] = v})
Values(data) == {data[x] : x \in 1..Len(data)}

C4_EmptyChannelFails ==
    (Len(ent_data) = 0 /\ ent_pc \notin {"idle", "count"})
       => /\ ent_pc = "error"
          /\ entropy # Some(0)

\* C4 amended: a zero-length channel is not an error for calculate_entropy:
\* the histogram stays empty and the call returns 0.
C4_EmptyChannelReturnsZero ==
    /\ ent_pc \in {"idle", "count", "done"}
    /\ (Len(ent_data) = 0 /\ ent_pc = "done")
          => /\ histogram = EmptyMap
             /\ entropy = Some(0)

\* calculate_entropy has returned on a zero-length channel
C4_Witness ==
    /\ ent_pc = "done"
    /\ ent_data = << >>

\* ------------------------------------------------------------------- C2
\* C2 as stated: on a non-empty sequence ppm_compress never divides by
\* zero, charges every symbol at least a minimum cost and returns a
\* strictly positive cost.
C2_PositiveCost ==
    /\ ppm_i >= 1 => (total_freq >= 1 /\ symbol_cost >= 1)
    /\ (ppm_pc = "done" /\ Len(image_data) > 0) => compressed_size > 0

\* C2 amended: on a non-empty sequence ppm_compress never divides by zero
\* and returns a cost that is not negative; the first symbol is charged 0
\* (there is no per-symbol floor), so 0 is returned for a non-empty
\* sequence such as any sequence of one byte.
C2_NonNegativeCost ==
    /\ ppm_i >= 1 => (total_freq >= 1 /\ symbol_cost >= 0)
    /\ compressed_size >= 0
    /\ ppm_i = 1 => (symbol_cost = 0 /\ compressed_size = 0)
    /\ (ppm_pc = "done" /\ Len(image_data) = 1) => compressed_size = 0

\* ppm_compress returned 0 for a sequence of more than one byte
C2_Witness ==
    /\ ppm_pc = "done"
    /\ Len(image_data) >= 2
    /\ compressed_size = 0

\* ------------------------------------------------------------------- C3
Prefix(data, k) == SubSeq(data, 1, k)

\* C3: the accumulated cost never decreases from one position to the
\* next, after i positions it is ppm_compress of the first i bytes (what
\* follows position i has no part in it), and ppm_compress of every prefix
\* is at most ppm_compress of the whole sequence.
C3_PrefixCost ==
    /\ ppm_pc \in {"loop", "done"}
          => compressed_size = ppm_compress(Prefix(image_data, ppm_i))
    /\ ppm_pc = "done"
          => \A k \in 0..Len(image_data) :
                ppm_compress(Prefix(image_data, k)) <= compressed_size
C3_CostStep == compressed_size' >= compressed_size
C3_Monotone == []C3_PrefixCost /\ [][C3_CostStep]_vars

\* a finished pass whose cost grew at more than one position
C3_Witness ==
    /\ ppm_pc = "done"
    /\ Len(image_data) >= 3
    /\ compressed_size >= 2
    /\ \E k \in 1..(Len(image_data) - 1) :
          /\ ppm_compress(Prefix(image_data, k)) >= 1
          /\ ppm_compress(Prefix(image_data, k)) < compressed_size

\* ------------------------------------------------------------------- C8
CodedValue == image_data[ppm_i + 1]
CountsBefore == MapGet(context_map, context', EmptyMap)

\* C8 as stated: total and count are those of the context before the
\* current symbol is counted, a context seen for the first time (total 0)
\* is charged the escape cost, and the count is incremented afterwards.
C8_CountsBeforeUpdateStep ==
    ppm_i' = ppm_i + 1 =>
       /\ total_freq' = SumValues(CountsBefore)
       /\ value_freq' = MapGet(CountsBefore, CodedValue, 0)
       /\ SumValues(CountsBefore) = 0 => symbol_cost' = 8
       /\ context_map'[context'][CodedValue] = value_freq' + 1
C8_CountsBeforeUpdate == [][C8_CountsBeforeUpdateStep]_vars

\* C8 amended: the (context, symbol) count is incremented first; total and
\* count are those of the context after the current symbol is counted, so
\* total is never 0 and nothing is special-cased: the cost charged is
\* ceil(|log2(count/total)|), which is 0 for a context seen for the first
\* time.
C8_CountsAfterUpdateStep ==
    ppm_i' = ppm_i + 1 =>
       /\ total_freq' = SumValues(CountsBefore) + 1
       /\ value_freq' = MapGet(CountsBefore, CodedValue, 0) + 1
       /\ context_map'[context'][CodedValue] = value_freq'
       /\ total_freq' = SumValues(context_map'[context'])
       /\ symbol_cost' = CeilAbsLog2(value_freq', total_freq')
       /\ SumValues(CountsBefore) = 0 => symbol_cost' = 0
       /\ compressed_size' = compressed_size + symbol_cost'
C8_CountsAfterUpdate == [][C8_CountsAfterUpdateStep]_vars

\* a symbol coded in a context that was seen before with other symbols
C8_Witness ==
    /\ ppm_i >= 2
    /\ total_freq >= 3
    /\ value_freq = 1
    /\ symbol_cost = 2

\* ------------------------------------------------------------------ C10
RECURSIVE SumCounts(_)
SumCounts(map) ==
    IF DOMAIN map = {} THEN 0
    ELSE LET k == CHOOSE x \in DOMAIN map : TRUE
         IN  SumValues(map[k]) + SumCounts([x \in DOMAIN map \ {k} |-> map[x]])

\* C10: at 0-indexed position i the context is the min(i, 3) bytes before
\* position i; after i symbols the counts of all contexts sum to i; when
\* the probability is computed 1 <= count <= total; and no context is
\* removed and no count decreases.
C10_Bookkeeping ==
    /\ ppm_pc \in {"loop", "done"} => SumCounts(context_map) = ppm_i
    /\ ppm_i >= 1
          => LET i == ppm_i - 1
             IN  /\ Len(context) = (IF i < 3 THEN i ELSE 3)
                 /\ \A k \in 1..Len(context) :
                       context[k] = image_data[i - Len(context) + k]
                 /\ context \in DOMAIN context_map
                 /\ value_freq = context_map[context][image_data[ppm_i]]
                 /\ total_freq = SumValues(context_map[context])
                 /\ 1 <= value_freq
                 /\ value_freq <= total_freq
C10_Grows ==
    \A ctx \in DOMAIN context_map :
       /\ ctx \in DOMAIN context_map'
       /\ \A v \in DOMAIN context_map[ctx] :
             /\ v \in DOMAIN context_map'[ctx]
             /\ context_map'[ctx][v] >= context_map[ctx][v]
C10_ContextTable == []C10_Bookkeeping /\ [][C10_Grows]_vars

\* a 3-byte context met for the second time
C10_Witness ==
    /\ ppm_i >= 5
    /\ Len(context) = 3
    /\ total_freq >= 2

=============================================================================
